---- MODULE Spec2Model ----
(***************************************************************************)
(* ArrayBuffer and typed-array constructors of src/arraybuffers.cc, with   *)
(* the weak-handle finalizer of the external byte region.                  *)
(*                                                                         *)
(* Script values handed to the constructors are records [t, hi, lo]:       *)
(*   t = "uint32"    a number for which IsUint32() holds, hi*2^31 + lo     *)
(*   t = "coerced"   any other value whose ToNumber/ToInt32 gives lo       *)
(*   t = "throws"    a value whose ToNumber raises a host exception        *)
(*   t = "undefined" the undefined value                                   *)
(*   t = "absent"    no argument at this position                          *)
(*   t = "buffer"    the object bufs[lo], which carries the hidden marker  *)
(* C++ int32_t values are integers in MinInt32..MaxInt32; every sum,       *)
(* difference and product of the code is computed in that width.           *)
(***************************************************************************)
EXTENDS Integers, Sequences, FiniteSets, TLC

VARIABLES bufs, views, roots, counter, last

vars == <<bufs, views, roots, counter, last>>

\* ---------------------------------------------------------------- bounds
MaxBufs == 2
MaxViews == 2

\* ------------------------------------------------------------- constants
kMaxLength == 1073741823
kMaxSize == 2147483647
MaxInt32 == 2147483647
MinInt32 == (-MaxInt32) - 1

ElemSizes == {1, 2, 4, 8}

\* ---------------------------------------------------------- script values
U32(h, l) == [t |-> "uint32", hi |-> h, lo |-> l]
Coerced(r) == [t |-> "coerced", hi |-> 0, lo |-> r]
Throws == [t |-> "throws", hi |-> 0, lo |-> 0]
Undefined == [t |-> "undefined", hi |-> 0, lo |-> 0]
Absent == [t |-> "absent", hi |-> 0, lo |-> 0]
BufferArg(b) == [t |-> "buffer", hi |-> 0, lo |-> b]

\* args.Length(): the number of arguments actually passed
ArgsLength(args) ==
  IF args[1].t = "absent" THEN 0
  ELSE IF args[2].t = "absent" THEN 1
  ELSE IF args[3].t = "absent" THEN 2 ELSE 3

\* ------------------------------------------------------ int32 arithmetic
\* size_t -> int32_t narrowing at "int32_t x = convertToUint(...)": the low
\* 32 bits, read as two's complement.
NarrowToInt32(sz) == IF sz.hi = 0 THEN sz.lo ELSE sz.lo + MinInt32

\* The outcomes of a signed operation: its value when it fits, otherwise
\* (undefined behaviour) either the wrapped value or a trap.
Fits(v) == {[trap |-> FALSE, v |-> v]}
Overflowed(w) == {[trap |-> FALSE, v |-> w], [trap |-> TRUE, v |-> 0]}

\* a * b in int32_t, b one of the element sizes
WrapMul(a, b) ==
  IF b = 1 THEN a
  ELSE LET half == (MaxInt32 \div b) + 1      \* 2^31 / b
           low == a % half                    \* the bits below the new sign bit
           sign == (a \div half) % 2          \* the bit that becomes the sign
       IN IF sign = 0 THEN low * b ELSE (low - half) * b

MulInt32(a, b) ==
  IF a > MaxInt32 \div b \/ a < MinInt32 \div b
    THEN Overflowed(WrapMul(a, b)) ELSE Fits(a * b)

\* a + b in int32_t
AddInt32(a, b) ==
  IF b > 0 /\ a > MaxInt32 - b
    THEN Overflowed((a + MinInt32) + (b + MinInt32))
  ELSE IF b < 0 /\ a < MinInt32 - b
    THEN Overflowed((a - MinInt32) + (b - MinInt32))
  ELSE Fits(a + b)

\* a - b in int32_t
SubInt32(a, b) ==
  IF b < 0 /\ a > MaxInt32 + b
    THEN Overflowed((a + MinInt32) - (b - MinInt32))
  ELSE IF b > 0 /\ a < MinInt32 + b
    THEN Overflowed((a - MinInt32) - (b + MinInt32))
  ELSE Fits(a - b)

\* a / b in C++ (truncation toward zero), b > 0
TruncDiv(a, b) ==
  IF a >= 0 \/ a % b = 0 THEN a \div b ELSE (a \div b) + 1

\* ------------------------------------------------------------ coercion
NoError == "none"

\* convertToUint: the size_t it returns (hi*2^31 + lo) and the exception
\* left in the caller's TryCatch.
convertToUint(value_in) ==
  IF value_in.t = "uint32"
    THEN [caught |-> NoError, hi |-> value_in.hi, lo |-> value_in.lo]
  ELSE IF value_in.t = "throws"
    THEN [caught |-> "HostError", hi |-> 0, lo |-> 0]
  ELSE LET raw_value == IF value_in.t = "coerced" THEN value_in.lo ELSE 0
       IN IF raw_value < 0
            THEN [caught |-> "InvalidLengthError", hi |-> 0, lo |-> 0]
          ELSE IF raw_value > kMaxLength
            THEN [caught |-> "LengthExceededError", hi |-> 0, lo |-> raw_value]
          ELSE [caught |-> NoError, hi |-> 0, lo |-> raw_value]

\* ---------------------------------------------------------------- heap
\* The most live external bytes the allocator hands out; a request beyond
\* it fails like any other failed allocation.
HeapLimit == kMaxSize

NoData == [p \in {} |-> 0]

\* The wrapper object of CreateExternalArrayBuffer(length) and its region:
\* size is the extent of new uint8_t[length], byteLength the read-only
\* property, zeroed the memset, weak the handle made weak with the finalizer.
NewBuffer(length) ==
  [size |-> length, byteLength |-> length, zeroed |-> TRUE, weak |-> TRUE,
   freed |-> FALSE, nfinal |-> 0, data |-> NoData, written |-> NoData]

\* an array object built without its buffer property
NewViewNoBuffer(es, buffer, byteOffset, byteLength, length) ==
  [es |-> es, dbuf |-> buffer, buffer |-> 0, byteOffset |-> byteOffset,
   byteLength |-> byteLength, length |-> length]

\* The array object: the element pointer (region dbuf, displaced by
\* byteOffset) and the read-only properties.
NewView(es, buffer, byteOffset, byteLength, length) ==
  [es |-> es, dbuf |-> buffer, buffer |-> buffer, byteOffset |-> byteOffset,
   byteLength |-> byteLength, length |-> length]

Fail(status) ==
  [status |-> status, bufs |-> bufs, views |-> views, counter |-> counter,
   view |-> 0, buf |-> 0]

Abort == Fail("abort")

\* CreateExternalArrayBuffer(int32_t length): every outcome of the call.
CreateExternalArrayBuffer(length) ==
  IF length < 0 \/ length > kMaxSize
    THEN {Fail("AllocationError")}
    ELSE {Fail("OutOfMemory")} \cup
         (IF counter <= HeapLimit - length
            THEN {[status |-> "ok",
                   bufs |-> Append(bufs, NewBuffer(length)),
                   views |-> views,
                   counter |-> counter + length,
                   view |-> 0, buf |-> Len(bufs) + 1]}
            ELSE {})

\* CreateExternalArrayBuffer(const Arguments& args)
ArrayBufferOutcomes(args) ==
  IF ArgsLength(args) = 0 THEN {Fail("ArityError")}
  ELSE LET c == convertToUint(args[1])
       IN IF c.caught # NoError THEN {Fail(c.caught)}
          ELSE CreateExternalArrayBuffer(NarrowToInt32(c))

\* The tail of CreateExternalArray: the array object over buffer b of heap h.
WithView(h, pending, es, b, byteOffset, byteLength, length) ==
  [status |-> pending,
   bufs |-> h.bufs,
   views |-> Append(h.views, NewView(es, b, byteOffset, byteLength, length)),
   counter |-> h.counter,
   view |-> Len(h.views) + 1, buf |-> h.buf]

Here == [status |-> "ok", bufs |-> bufs, views |-> views, counter |-> counter,
         view |-> 0, buf |-> 0]

\* the two byteOffset checks in the other order
OffsetOfAlignmentFirst(args, es, bufferLength) ==
  IF ArgsLength(args) < 2 \/ args[2].t = "undefined"
    THEN [err |-> NoError, v |-> 0]
  ELSE LET c == convertToUint(args[2])
           byteOffset == NarrowToInt32(c)
       IN IF c.caught # NoError THEN [err |-> c.caught, v |-> 0]
          ELSE IF byteOffset % es # 0
            THEN [err |-> "AlignmentError", v |-> 0]
          ELSE IF byteOffset > bufferLength
            THEN [err |-> "OutOfBoundsError", v |-> 0]
          ELSE [err |-> NoError, v |-> byteOffset]

\* byteOffset of the buffer-aliasing shape: the value, or the error
OffsetOf(args, es, bufferLength) ==
  IF ArgsLength(args) < 2 \/ args[2].t = "undefined"
    THEN [err |-> NoError, v |-> 0]
  ELSE LET c == convertToUint(args[2])
           byteOffset == NarrowToInt32(c)
       IN IF c.caught # NoError THEN [err |-> c.caught, v |-> 0]
          ELSE IF byteOffset > bufferLength
            THEN [err |-> "OutOfBoundsError", v |-> 0]
          ELSE IF byteOffset % es # 0
            THEN [err |-> "AlignmentError", v |-> 0]
          ELSE [err |-> NoError, v |-> byteOffset]

\* length and byteLength of the buffer-aliasing shape, given byteOffset
AliasOutcomes(args, es, b, bufferLength, byteOffset) ==
  IF ArgsLength(args) < 3 \/ args[3].t = "undefined"
    THEN { IF d.trap THEN Abort
           ELSE IF d.v % es # 0 THEN Fail("AlignmentError")
           ELSE WithView(Here, "ok", es, b, byteOffset, d.v, TruncDiv(d.v, es))
         : d \in SubInt32(bufferLength, byteOffset) }
  ELSE LET c == convertToUint(args[3])
           length == NarrowToInt32(c)
       IN IF c.caught # NoError THEN {Fail(c.caught)}
          ELSE UNION {
            IF m.trap THEN {Abort}
            ELSE { IF s.trap THEN Abort
                   ELSE IF s.v > bufferLength THEN Fail("OutOfBoundsError")
                   ELSE WithView(Here, "ok", es, b, byteOffset, m.v, length)
                 : s \in AddInt32(byteOffset, m.v) }
            : m \in MulInt32(length, es) }

\* the count-only shape: the exception of convertToUint stays pending while
\* the buffer and the array are built, and is thrown when the call returns
CountOutcomes(args, es) ==
  LET c == convertToUint(args[1])
      length == NarrowToInt32(c)
  IN UNION {
       IF m.trap THEN {Abort}
       ELSE { IF r.status # "ok" THEN r
              ELSE WithView(r, IF c.caught # NoError THEN c.caught ELSE "ok",
                            es, r.buf, 0, m.v, length)
            : r \in CreateExternalArrayBuffer(m.v) }
       : m \in MulInt32(length, es) }

\* CreateExternalArray(args, type, element_size): every outcome of the call.
CreateExternalArray(args, es) ==
  IF ArgsLength(args) = 0 THEN {Fail("ArityError")}
  ELSE IF args[1].t = "buffer"
    THEN LET b == args[1].lo
             cb == convertToUint(U32(0, bufs[b].byteLength))
             bufferLength == NarrowToInt32(cb)
             off == OffsetOf(args, es, bufferLength)
         IN IF cb.caught # NoError THEN {Fail(cb.caught)}
            ELSE IF off.err # NoError THEN {Fail(off.err)}
            ELSE AliasOutcomes(args, es, b, bufferLength, off.v)
  ELSE CountOutcomes(args, es)

\* ------------------------------------------------------- reachability
BufRef(b) == [k |-> "buffer", id |-> b]
ViewRef(v) == [k |-> "view", id |-> v]

\* the views the script still holds
ReachableViews == {v \in 1..Len(views) : ViewRef(v) \in roots}

\* the buffers the script holds, or reaches through the buffer property of a
\* view it holds
ReachableBufs ==
  {b \in 1..Len(bufs) : BufRef(b) \in roots} \cup
  {views[v].buffer : v \in {w \in ReachableViews : views[w].buffer # 0}}

Running == last.status # "abort"

NoArgs == <<Absent, Absent, Absent>>

Did(op, es, args, status, view, buf) ==
  [op |-> op, es |-> es, args |-> args, status |-> status,
   view |-> view, buf |-> buf, idx |-> 0, value |-> <<>>]

DidAccess(op, view, idx, value) ==
  [op |-> op, es |-> 0, args |-> NoArgs, status |-> "ok",
   view |-> view, buf |-> 0, idx |-> idx, value |-> value]

\* ------------------------------------------------------------- actions
Init ==
  /\ bufs = <<>>
  /\ views = <<>>
  /\ roots = {}
  /\ counter = 0
  /\ last = Did("init", 0, NoArgs, "ok", 0, 0)

\* ArrayBuffers::ArrayBuffer(args), the object handed to the script on success
ArrayBufferCall(args) ==
  /\ Running
  /\ \E o \in ArrayBufferOutcomes(args) :
       /\ bufs' = o.bufs
       /\ views' = o.views
       /\ counter' = o.counter
       /\ roots' = IF o.status = "ok" THEN roots \cup {BufRef(o.buf)} ELSE roots
       /\ last' = Did("ArrayBuffer", 0, args, o.status, 0, o.buf)

\* ArrayBuffers::Int8Array ... Float64Array(args): element_size es
TypedArrayCall(es, args) ==
  /\ Running
  /\ args[1].t = "buffer" => args[1].lo \in ReachableBufs
  /\ \E o \in CreateExternalArray(args, es) :
       /\ bufs' = o.bufs
       /\ views' = o.views
       /\ counter' = o.counter
       /\ roots' = IF o.status = "ok" THEN roots \cup {ViewRef(o.view)} ELSE roots
       /\ last' = Did("TypedArray", es, args, o.status, o.view, o.buf)

\* the script forgets one of its references
DropRef(r) ==
  /\ Running
  /\ r \in roots
  /\ roots' = roots \ {r}
  /\ last' = Did("drop", 0, NoArgs, "ok", 0, 0)
  /\ UNCHANGED <<bufs, views, counter>>

\* the script reads the buffer property of a view it holds
GetBuffer(v) ==
  /\ Running
  /\ v \in ReachableViews
  /\ views[v].buffer # 0
  /\ BufRef(views[v].buffer) \notin roots
  /\ roots' = roots \cup {BufRef(views[v].buffer)}
  /\ last' = Did("buffer", 0, NoArgs, "ok", v, views[v].buffer)
  /\ UNCHANGED <<bufs, views, counter>>

\* a finalizer that reads a property the wrapper does not have (undefined,
\* whose Uint32Value is 0)
FinalizerAdjustNoProperty(b) == 0

\* what the finalizer hands to AdjustAmountOfExternalAllocatedMemory
FinalizerAdjust(b) == -(bufs[b].byteLength)

\* ExternalArrayWeakCallback, called by the collector for a weak handle whose
\* object nothing reaches any more
Finalize(b) ==
  /\ Running
  /\ b \in 1..Len(bufs)
  /\ bufs[b].weak
  /\ b \notin ReachableBufs
  /\ counter' = counter + FinalizerAdjust(b)
  /\ bufs' = [bufs EXCEPT ![b].freed = TRUE, ![b].weak = FALSE,
                          ![b].nfinal = @ + 1]
  /\ last' = Did("finalize", 0, NoArgs, "ok", 0, b)
  /\ UNCHANGED <<views, roots>>

\* ------------------------------------------------- element accesses
ByteVals == {0, 1, 2}
WriteVals == {1, 2}
Indices == {0, 1}

\* the bytes element idx of view v occupies, counted from the start of the
\* region its element pointer was taken from
ElementBytes(v, idx) ==
  {views[v].byteOffset + idx * views[v].es + k : k \in 0..(views[v].es - 1)}

InRegion(b, ps) == ~bufs[b].freed /\ ps \subseteq 0..(bufs[b].size - 1)

Store(f, ps, val) ==
  [p \in DOMAIN f \cup ps |-> IF p \in ps THEN val ELSE f[p]]

\* what a load of byte p of region b can give
ReadableValues(b, p) ==
  IF p \in DOMAIN bufs[b].data THEN {bufs[b].data[p]}
  ELSE IF bufs[b].zeroed THEN {0} ELSE ByteVals

\* the regions a store outside its own region can land in: es adjacent
\* bytes of another live region
Victims(b, es) ==
  {[buf |-> c, at |-> q .. (q + es - 1)] :
     c \in {d \in 1..Len(bufs) : d # b /\ ~bufs[d].freed},
     q \in 0..1} 

\* array[idx] = val through the external element pointer set up at
\* SetIndexedPropertiesToExternalArrayData(data + byteOffset, type, length)
WriteElement(v, idx, val) ==
  /\ Running
  /\ v \in ReachableViews
  /\ idx < views[v].length
  /\ LET b == views[v].dbuf
         ps == ElementBytes(v, idx)
     IN IF InRegion(b, ps)
          THEN bufs' = [bufs EXCEPT ![b].data = Store(@, ps, val),
                                    ![b].written = Store(@, ps, val)]
          ELSE \E hit \in {[buf |-> 0, at |-> {}]} \cup
                          {x \in Victims(b, views[v].es) :
                             InRegion(x.buf, x.at)} :
                 bufs' = IF hit.buf = 0 THEN bufs
                         ELSE [bufs EXCEPT ![hit.buf].data =
                                             Store(@, hit.at, val)]
  /\ last' = DidAccess("write", v, idx, <<val>>)
  /\ UNCHANGED <<views, roots, counter>>

\* array[idx]: the bytes of the element, lowest address first
ReadElement(v, idx) ==
  /\ Running
  /\ v \in ReachableViews
  /\ idx < views[v].length
  /\ LET b == views[v].dbuf
         es == views[v].es
         p0 == views[v].byteOffset + idx * es
         inside == InRegion(b, ElementBytes(v, idx))
     IN \E val \in [1..es -> ByteVals] :
          /\ inside => \A k \in 1..es : val[k] \in ReadableValues(b, p0 + k - 1)
          /\ last' = DidAccess("read", v, idx, val)
  /\ UNCHANGED <<bufs, views, roots, counter>>

\* --------------------------------------------- lifetime specification
LifeElemSizes == {1, 4}
LifeBufferArgs == {U32(0, 2), Coerced(-1)}
LifeCounts == {U32(0, 1), Coerced(-1)}
LifeOffsets == {Absent, U32(0, 2)}
LifeLengths == {Absent, U32(0, 1)}

LifeViewArgs ==
  {<<c, Absent, Absent>> : c \in LifeCounts} \cup
  {<<BufferArg(b), o, IF o = Absent THEN Absent ELSE n>> :
     b \in 1..Len(bufs), o \in LifeOffsets, n \in LifeLengths}

\* the calls stop once the heap holds MaxBufs buffers and MaxViews views
BufRoom == Len(bufs) < MaxBufs
ViewRoom(args) ==
  Len(views) < MaxViews /\ (args[1].t # "buffer" => BufRoom)

Next ==
  \/ \E a \in LifeBufferArgs : BufRoom /\ ArrayBufferCall(<<a, Absent, Absent>>)
  \/ \E es \in LifeElemSizes : \E args \in LifeViewArgs :
       ViewRoom(args) /\ TypedArrayCall(es, args)
  \/ \E r \in roots : DropRef(r)
  \/ \E v \in 1..Len(views) : GetBuffer(v)
  \/ \E b \in 1..Len(bufs) : Finalize(b)

Spec == Init /\ [][Next]_vars

\* ------------------------------------------------------ lifetime claims
RECURSIVE LiveBytes(_)
LiveBytes(n) ==
  IF n = 0 THEN 0
  ELSE LiveBytes(n - 1) + (IF bufs[n].freed THEN 0 ELSE bufs[n].size)

\* C1: the external-memory counter equals the bytes of the regions that were
\* allocated and not yet freed, and the byteLength the finalizer reads back
\* is the size that was allocated.
CounterMatchesLiveBytes ==
  /\ counter = LiveBytes(Len(bufs))
  /\ \A b \in 1..Len(bufs) : bufs[b].byteLength = bufs[b].size

\* a non-empty region has been finalized while another is still live
CounterWitness ==
  /\ \E b \in 1..Len(bufs) : bufs[b].freed /\ bufs[b].size > 0
  /\ \E c \in 1..Len(bufs) : ~bufs[c].freed /\ bufs[c].size > 0

\* C2: a region is freed at most once, never while its wrapper is reachable,
\* and no view the script holds points into a freed region.
NoReachableFreedRegion ==
  /\ \A b \in 1..Len(bufs) :
       /\ bufs[b].nfinal <= 1
       /\ bufs[b].freed <=> bufs[b].nfinal = 1
       /\ b \in ReachableBufs => ~bufs[b].freed
  /\ \A v \in ReachableViews : ~bufs[views[v].dbuf].freed

\* a held view keeps alive a buffer the script no longer holds itself, while
\* another buffer that had a view over it has been finalized
LifetimeWitness ==
  /\ \E v \in ReachableViews :
       /\ BufRef(views[v].dbuf) \notin roots
       /\ ~bufs[views[v].dbuf].freed
  /\ \E w \in 1..Len(views) : bufs[views[w].dbuf].freed

\* ------------------------------------------ constructor specification
\* One construction per behaviour over the whole range of argument values:
\* ArrayBuffer(n), then one typed-array call over it or from a count.
CallNumbers ==
  {U32(0, 0), U32(0, 1), U32(0, 2), U32(0, 3), U32(0, 4), U32(0, 5),
   U32(0, 8), U32(0, 16),
   U32(0, 268435455), U32(0, 536870912), U32(0, 536870913),
   U32(0, kMaxLength), U32(0, kMaxLength + 1),
   U32(0, MaxInt32 - 7), U32(0, MaxInt32),
   U32(1, 0), U32(1, MaxInt32 - 7), U32(1, MaxInt32 - 1), U32(1, MaxInt32),
   Coerced(-1), Coerced(3), Coerced(kMaxLength + 1), Throws}

CallViewArgs ==
  {<<c, Absent, Absent>> : c \in CallNumbers \cup {Undefined, Absent}} \cup
  {<<BufferArg(b), o, IF o = Absent THEN Absent ELSE n>> :
     b \in 1..Len(bufs),
     o \in CallNumbers \cup {Undefined, Absent},
     n \in CallNumbers \cup {Undefined, Absent}}

NextCall ==
  \/ /\ bufs = <<>>
     /\ last.op # "TypedArray"
     /\ \E a \in CallNumbers \cup {Absent} :
          ArrayBufferCall(<<a, Absent, Absent>>)
  \/ /\ last.op # "TypedArray"
     /\ \E es \in ElemSizes : \E args \in CallViewArgs :
          TypedArrayCall(es, args)

SpecCall == Init /\ [][NextCall]_vars

\* ---- the last call, as the claims read it
IsAlias == last.op = "TypedArray" /\ last.args[1].t = "buffer"
IsCount == last.op = "TypedArray" /\ last.args[1].t \notin {"buffer", "absent"}
Returned == last.status = "ok"
TargetLen == bufs[last.args[1].lo].byteLength
Given(a) == a.t \notin {"absent", "undefined"}
PassesCoercion(a) == convertToUint(a).caught = NoError
\* the exact value of an argument that passes coercion, as hi*2^31 + lo
Exact(a) == IF Given(a) THEN convertToUint(a)
            ELSE [caught |-> NoError, hi |-> 0, lo |-> 0]

\* a + b <= c over the integers, for int32 a, b and c >= 0
SumAtMost(a, b, c) ==
  IF b < 0 /\ c > MaxInt32 + b THEN TRUE ELSE a <= c - b

\* off + cnt * es > blen over the integers
ExactExceeds(off, cnt, es, blen) ==
  IF off.hi = 1 \/ cnt.hi = 1 THEN TRUE
  ELSE off.lo > blen \/ cnt.lo > (blen - off.lo) \div es

\* x = blen - off over the integers
ExactDiffIs(x, blen, off) ==
  IF off.hi = 0 THEN x = blen - off.lo
  ELSE blen >= off.lo /\ x = (blen - off.lo) + MinInt32

\* C3: every view lies inside its buffer: byteOffset + byteLength <=
\* buffer.byteLength for every view ever constructed.
ViewsInsideBuffer ==
  \A v \in 1..Len(views) :
    SumAtMost(views[v].byteOffset, views[v].byteLength,
              bufs[views[v].buffer].byteLength)

\* C4: a buffer-aliasing construction whose byteOffset + count * elementSize,
\* as exact integers, is past the end of the buffer never returns a view.
NoViewPastBufferEnd ==
  (/\ IsAlias
   /\ Given(last.args[3])
   /\ PassesCoercion(last.args[2]) \/ ~Given(last.args[2])
   /\ PassesCoercion(last.args[3])
   /\ ExactExceeds(Exact(last.args[2]), Exact(last.args[3]), last.es, TargetLen))
  => ~Returned

\* the byteOffset argument of the last call is given, passes coercion and is
\* not a multiple of the element size
MisalignedOffset ==
  /\ IsAlias
  /\ Given(last.args[2])
  /\ PassesCoercion(last.args[2])
  /\ Exact(last.args[2]).lo % last.es # 0

\* C5 as stated: every misaligned byteOffset ends in AlignmentError.
MisalignedAlwaysAlignmentError ==
  MisalignedOffset => last.status = "AlignmentError"

\* C5 as amended: a misaligned byteOffset never yields a view; the call ends
\* in OutOfBoundsError when the offset, as the int32 the code compares, is
\* greater than buffer.byteLength (that check runs first), and in
\* AlignmentError otherwise.
MisalignedOffsetFails ==
  MisalignedOffset =>
    last.status = IF NarrowToInt32(Exact(last.args[2])) > TargetLen
                    THEN "OutOfBoundsError" ELSE "AlignmentError"

\* a misaligned offset inside the buffer was refused as misaligned
MisalignedWitness ==
  /\ MisalignedOffset
  /\ Exact(last.args[2]).hi = 0
  /\ Exact(last.args[2]).lo <= TargetLen
  /\ last.status = "AlignmentError"

\* C6: a constructor call that ends in an error has allocated nothing,
\* registered no finalizer, left the counter alone and built no object.
FailedCallChangesNothing ==
  [][(/\ last'.op \in {"ArrayBuffer", "TypedArray"}
      /\ last'.status \notin {"ok", "abort"})
     => (bufs' = bufs /\ views' = views /\ counter' = counter)]_vars

\* C7: a count-only construction with 0 <= count <= kMaxLength that returns
\* a view returns one of count elements at offset 0 whose byteLength is the
\* exact product count * elementSize, over a fresh buffer of that size.
CountOnlyGeometry ==
  (/\ IsCount
   /\ PassesCoercion(last.args[1])
   /\ Exact(last.args[1]).hi = 0
   /\ Exact(last.args[1]).lo <= kMaxLength
   /\ Returned)
  => LET count == Exact(last.args[1]).lo
         w == views[last.view]
     IN /\ w.length = count
        /\ w.byteOffset = 0
        /\ count <= MaxInt32 \div last.es
        /\ w.byteLength = count * last.es
        /\ last.buf # 0
        /\ w.buffer = last.buf
        /\ bufs[last.buf].byteLength = w.byteLength

\* C9: with count omitted and byteOffset accepted, a remainder that is not a
\* multiple of elementSize ends in AlignmentError; otherwise the view has
\* byteLength = buffer.byteLength - byteOffset and length = byteLength /
\* elementSize.
RemainderGeometry ==
  (/\ IsAlias
   /\ ~Given(last.args[3])
   /\ OffsetOf(last.args, last.es, TargetLen).err = NoError
   /\ last.status # "abort")
  => IF (TargetLen - Exact(last.args[2]).lo) % last.es # 0
       THEN last.status = "AlignmentError"
       ELSE /\ Returned
            /\ ExactDiffIs(views[last.view].byteLength, TargetLen,
                           Exact(last.args[2]))
            /\ views[last.view].length * last.es = views[last.view].byteLength

\* C10: a view that is returned has 0 <= byteOffset <= buffer.byteLength and
\* byteOffset a multiple of elementSize, and an offset argument greater than
\* buffer.byteLength ends in OutOfBoundsError.
OffsetInRange ==
  /\ (IsAlias /\ Returned) =>
       /\ views[last.view].byteOffset >= 0
       /\ views[last.view].byteOffset <= TargetLen
       /\ views[last.view].byteOffset % last.es = 0
  /\ (/\ IsAlias
      /\ Given(last.args[2])
      /\ PassesCoercion(last.args[2])
      /\ Exact(last.args[2]).hi = 1 \/ Exact(last.args[2]).lo > TargetLen)
     => last.status = "OutOfBoundsError"

\* ---------------------------------------------- aliasing specification
MemElemSizes == {1, 2}
MemBufferArgs == {U32(0, 2)}
MemOffsets == {U32(0, 0), U32(1, MaxInt32 - 1)}
MemLengths == {U32(0, 1)}

MemViewArgs ==
  {<<BufferArg(b), Absent, Absent>> : b \in 1..Len(bufs)} \cup
  {<<BufferArg(b), o, n>> :
     b \in 1..Len(bufs), o \in MemOffsets, n \in MemLengths}

NextMem ==
  \/ \E a \in MemBufferArgs : BufRoom /\ ArrayBufferCall(<<a, Absent, Absent>>)
  \/ \E es \in MemElemSizes : \E args \in MemViewArgs :
       ViewRoom(args) /\ TypedArrayCall(es, args)
  \/ \E v \in 1..Len(views) : \E idx \in Indices : \E val \in WriteVals :
       WriteElement(v, idx, val)
  \/ \E v \in 1..Len(views) : \E idx \in Indices : ReadElement(v, idx)

SpecMem == Init /\ [][NextMem]_vars

\* the value the claim expects at byte p of buffer b: the latest value
\* written there through a view covering p, zero if there was none
Expected(b, p) ==
  IF p \in DOMAIN bufs[b].written THEN bufs[b].written[p] ELSE 0

\* C8: a read through a view of bytes inside its buffer gives, for each byte,
\* the latest value written to it through any view covering it, and zero for
\* a byte never written.
AliasedReadsSeeLatestWrite ==
  (/\ last.op = "read"
   /\ InRegion(views[last.view].dbuf, ElementBytes(last.view, last.idx)))
  => \A k \in 1..views[last.view].es :
       last.value[k] =
         Expected(views[last.view].dbuf,
                  views[last.view].byteOffset
                    + last.idx * views[last.view].es + k - 1)

====
